---- MODULE Spec2Model ----
(***************************************************************************)
(* install-tracker: the serverless technicians proxy, the client data      *)
(* adapter with the two components' load effects, and the reporting        *)
(* aggregator with its CSV export.                                         *)
(*                                                                         *)
(* Each part of the repository runs on its own (the proxy in a serverless  *)
(* function, each component in a browser), so each has its own             *)
(* specification over its own variables; the variables of the other parts  *)
(* stay at their idle value.                                               *)
(***************************************************************************)
EXTENDS Integers, Sequences, FiniteSets, TLC

VARIABLES
    \* ---- netlify/functions/technicians.js: one invocation of the handler
    env,          \* process.env: the five configuration values
    hpc,          \* position of the handler (which await it is suspended at)
    calls,        \* outbound network calls issued so far, in order
    tokenResp,    \* response of the token request, once it resolved
    resp,         \* response of the technicians request, once it resolved
    token,        \* tokenJson.access_token
    response,     \* what the handler returned
    \* ---- the browser: one of the two InstallTracker components
    mounted,      \* which component the page shows: "report" or "roster"
    tzOffset,     \* the host's time zone, minutes east of UTC
    setterCalls,  \* the state setters the load effects have called, each with
                  \* the value of its run's cancelled flag at the call
    \* ---- the install report (part_000)
    date, useRange, rangeStart, rangeEnd, pendingRangeOpen,
    allData,
    loads,        \* the runs of the load effect, oldest first
    selectedTechs, selectedInstallers, groupMode,
    lines,        \* exportCSV's lines array: rows of cells
    csv,          \* the text the csv line builder made of lines
    fileName,     \* the download name of the exported file
    \* ---- the technician roster (st-test.cjs)
    technicians, loadingTechs, techError,
    techLoads     \* the runs of the roster's load effect, oldest first

proxyVars == <<env, hpc, calls, tokenResp, resp, token, response>>
browserVars == <<mounted, tzOffset, setterCalls>>
reportVars == <<date, useRange, rangeStart, rangeEnd, pendingRangeOpen, allData, loads>>
viewVars == <<selectedTechs, selectedInstallers, groupMode>>
exportVars == <<lines, csv, fileName>>
rosterVars == <<technicians, loadingTechs, techError, techLoads>>

vars == <<proxyVars, browserVars, reportVars, viewVars, exportVars, rosterVars>>

None == [type |-> "none"]

(***************************************************************************)
(* JSON values, as JavaScript sees them after JSON.parse.                  *)
(***************************************************************************)
JUndefined == [type |-> "undefined"]
JNull == [type |-> "null"]
JStr(s) == [type |-> "string", s |-> s]
JNum(n) == [type |-> "number", n |-> n]
JArr(items) == [type |-> "array", items |-> items]
JObj(props) == [type |-> "object", props |-> props]

\* v.k : a TypeError on null and undefined, undefined when the key is absent.
CanGetProp(v) == v.type \notin {"null", "undefined"}

GetProp(v, k) ==
    IF v.type = "object" /\ k \in DOMAIN v.props THEN v.props[k] ELSE JUndefined

\* v?.k
OptProp(v, k) == IF CanGetProp(v) THEN GetProp(v, k) ELSE JUndefined

\* JavaScript truthiness, as used by !x and x || y.
Truthy(v) ==
    CASE v.type \in {"undefined", "null"} -> FALSE
      [] v.type = "string" -> v.s # ""
      [] v.type = "number" -> v.n # 0
      [] OTHER -> TRUE

\* x || y
OrElse(x, y) == IF Truthy(x) THEN x ELSE y

\* v?.length || 0
LengthOrZero(v) ==
    CASE v.type = "array" -> Len(v.items)
      [] v.type = "string" -> Len(v.s)
      [] OTHER -> 0

(***************************************************************************)
(* Dates.  An ISO date string "YYYY-MM-DD" is the triple <<y, m, d>> (the   *)
(* strings are zero padded, so their order is the order of the triples).   *)
(* A JavaScript Date is an instant, here in minutes since the epoch (UTC). *)
(* The host's time zone is a fixed offset tz, in minutes east of UTC.      *)
(***************************************************************************)
MinutesPerDay == 1440

\* Days since 1970-01-01 of a civil date, and back (proleptic Gregorian).
DaysFromCivil(y, m, d) ==
    LET yy == IF m <= 2 THEN y - 1 ELSE y
        era == yy \div 400
        yoe == yy - era * 400
        mp == IF m > 2 THEN m - 3 ELSE m + 9
        doy == (153 * mp + 2) \div 5 + d - 1
        doe == yoe * 365 + yoe \div 4 - yoe \div 100 + doy
    IN  era * 146097 + doe - 719468

CivilFromDays(z) ==
    LET zz == z + 719468
        era == zz \div 146097
        doe == zz - era * 146097
        yoe == (doe - doe \div 1460 + doe \div 36524 - doe \div 146096) \div 365
        doy == doe - (365 * yoe + yoe \div 4 - yoe \div 100)
        mp == (5 * doy + 2) \div 153
        d == doy - (153 * mp + 2) \div 5 + 1
        m == IF mp < 10 THEN mp + 3 ELSE mp - 9
        y == yoe + era * 400 + (IF m <= 2 THEN 1 ELSE 0)
    IN  <<y, m, d>>

\* new Date(iso + "T00:00:00"): midnight of that day in the host's zone.
ParseLocal(iso, tz) == DaysFromCivil(iso[1], iso[2], iso[3]) * MinutesPerDay - tz

\* new Date(iso): a date-only string is midnight UTC.
ParseUTC(iso) == DaysFromCivil(iso[1], iso[2], iso[3]) * MinutesPerDay

\* d.getDate(): the day of the month in the host's zone.
GetDate(t, tz) == CivilFromDays((t + tz) \div MinutesPerDay)[3]

\* d.setDate(n): the day of the month is set in the host's zone, the month and
\* the local time of day are kept, and an n outside the month carries over.
SetDate(t, n, tz) ==
    LET local == t + tz
        civil == CivilFromDays(local \div MinutesPerDay)
        timeOfDay == local % MinutesPerDay
    IN  (DaysFromCivil(civil[1], civil[2], 1) + n - 1) * MinutesPerDay + timeOfDay - tz

\* d.toISOString().slice(0, 10): the UTC date of the instant.
ToISODate(t) == CivilFromDays(t \div MinutesPerDay)

\* a <= b on ISO date strings.
LeqISO(a, b) ==
    \/ a[1] < b[1]
    \/ a[1] = b[1] /\ a[2] < b[2]
    \/ a[1] = b[1] /\ a[2] = b[2] /\ a[3] <= b[3]

\* Mutant: the day is taken off the wrong way round.
addDaysISOBackwards(baseISO, deltaDays, tz) ==
    LET d == ParseLocal(baseISO, tz)
    IN  ToISODate(SetDate(d, GetDate(d, tz) - deltaDays, tz))

addDaysISO(baseISO, deltaDays, tz) ==
    LET d == ParseLocal(baseISO, tz)
    IN  ToISODate(SetDate(d, GetDate(d, tz) + deltaDays, tz))

(***************************************************************************)
(* The demo data generator (deterministic per date).                       *)
(***************************************************************************)
TECHS == <<"Austin", "Adam", "Tim", "Kaleb", "Hunter", "Miguel">>
INSTALLERS == <<"Mike", "Steven", "Bubba", "Josh">>

RngModulus == 2147483647
RngMultiplier == 48271

\* (s * 48271) % 2147483647 without leaving 32 bits (Schrage's decomposition;
\* JavaScript computes the product exactly in a double).
RngNext(s) ==
    LET q == RngModulus \div RngMultiplier
        r == RngModulus % RngMultiplier
        v == RngMultiplier * (s % q) - r * (s \div q)
    IN  IF v < 0 THEN v + RngModulus ELSE v

\* seededRandom(seed): the first state of the generator.
RngSeed(seed) ==
    LET s == seed % RngModulus
    IN  IF s <= 0 THEN s + 2147483646 ELSE s

\* The first n states s1, s2, ... after state s; the k-th call of rng()
\* returns sk / 2147483647.
RECURSIVE RngStream(_, _)
RngStream(s, n) ==
    IF n = 0 THEN <<>> ELSE <<RngNext(s)>> \o RngStream(RngNext(s), n - 1)

\* Math.floor(rng() * n) for the state s the call produced: the number of
\* j in 1..n-1 with j / n <= s / 2147483647.
FloorScaled(s, n) ==
    LET q == RngModulus \div n
        r == RngModulus % n
    IN  Cardinality({j \in 1..(n - 1) : s >= j * q + (j * r + n - 1) \div n})

\* The character codes of an ISO date string.
Digit(n) == 48 + n
IsoCharCodes(iso) ==
    <<Digit(iso[1] \div 1000), Digit((iso[1] \div 100) % 10), Digit((iso[1] \div 10) % 10),
      Digit(iso[1] % 10), 45, Digit(iso[2] \div 10), Digit(iso[2] % 10), 45,
      Digit(iso[3] \div 10), Digit(iso[3] % 10)>>

\* strSeed: h = (h * 31 + code) | 0 over the characters, then Math.abs(h).
\* The 32-bit value is kept as two 16-bit halves <<hi, lo>>.
HashStep(h, code) ==
    LET lo == h[2] * 31 + code
        hi == h[1] * 31 + lo \div 65536
    IN  <<hi % 65536, lo % 65536>>

RECURSIVE HashFrom(_, _, _)
HashFrom(h, codes, i) ==
    IF i > Len(codes) THEN h ELSE HashFrom(HashStep(h, codes[i]), codes, i + 1)

\* Math.abs of the signed 32-bit value, reduced modulo 2147483647 as
\* seededRandom does next (2^32 - u for a negative value u - 2^32).
strSeed(iso) ==
    LET h == HashFrom(<<0, 0>>, IsoCharCodes(iso), 1)
    IN  IF h[1] < 32768
          THEN h[1] * 65536 + h[2]
          ELSE IF h = <<32768, 0>> THEN 1
          ELSE (65535 - h[1]) * 65536 + (65536 - h[2])

FirstNames ==
    <<"Amy", "Ben", "Chloe", "David", "Elena", "Frank", "Grace", "Hector", "Ivy", "Jake",
      "Kara", "Liam", "Maya", "Nolan", "Olivia", "Parker", "Quinn", "Riley", "Sofia", "Ty",
      "Uma", "Vince", "Wes", "Xena", "Yara", "Zane">>
LastNames ==
    <<"Baker", "Lopez", "Nguyen", "Khan", "Foster", "Smith", "Johnson", "Williams", "Brown",
      "Jones", "Garcia", "Miller", "Davis", "Rodriguez", "Martinez", "Hernandez", "Moore",
      "Taylor", "Anderson", "Thomas">>

\* pick(rng, arr) for the state s the call of rng() produced.
pick(s, arr) == arr[FloorScaled(s, Len(arr)) + 1]

\* dollars(rng) with min = 1200, max = 5200, step = 50.
DollarsMin == 1200
DollarsMax == 5200
DollarsStep == 50
dollars(s) ==
    LET range == (DollarsMax - DollarsMin) \div DollarsStep
    IN  DollarsMin + FloorScaled(s, range + 1) * DollarsStep

\* A string is a sequence of symbols: a symbol is one character, or a run of
\* letters none of which is a double quote, a comma or a line break.
\* randomName: `${pick(rng, last)}, ${pick(rng, first)}`.
randomName(sLast, sFirst) == <<pick(sLast, LastNames), ",", " ", pick(sFirst, FirstNames)>>

InstallsPerInstaller == 2
DrawsPerRecord == 5

\* fetchInstallsDemo(dateISO): the records it resolves to.  Record number j
\* (from 0) takes draws 5j+1 .. 5j+5 of the generator: the sold offset, the
\* amount, the last name, the first name, the technician.
fetchInstallsDemo(dateISO, tz) ==
    LET n == Len(INSTALLERS) * InstallsPerInstaller
        draws == RngStream(RngSeed(strSeed(dateISO)), n * DrawsPerRecord)
    IN  [j \in 1..n |->
            LET base == (j - 1) * DrawsPerRecord
                soldOffset == 0 - (3 + FloorScaled(draws[base + 1], 26))
            IN  [date |-> dateISO,
                 installDate |-> dateISO,
                 soldDate |-> addDaysISO(dateISO, soldOffset, tz),
                 invoiceAmount |-> dollars(draws[base + 2]),
                 customerName |-> randomName(draws[base + 3], draws[base + 4]),
                 installerName |-> INSTALLERS[(j - 1) \div InstallsPerInstaller + 1],
                 soldByTech |-> pick(draws[base + 5], TECHS)]]

(***************************************************************************)
(* HTTP as the handler and the adapter see it: a fetch rejects, or resolves*)
(* to a response with a status and a body stream.  Reading the body        *)
(* (text(), json()) rejects when the stream breaks (intact = FALSE);       *)
(* json() also rejects when the text is not JSON.                          *)
(***************************************************************************)
StatusCodes == {200, 401, 503}

Ok(status) == status >= 200 /\ status <= 299

Tech1 == JObj([id |-> JNum(1), name |-> JStr("Austin"), active |-> JStr("true")])
Tech2 == JObj([id |-> JNum(2), name |-> JStr("Adam"), active |-> JStr("true")])

\* JSON.parse of the body texts the model's upstream servers send.
IsJson(text) ==
    text \in {"null", "{}", "{\"access_token\":\"tok\"}", "{\"data\":[t1,t2]}",
              "{\"data\":\"none\"}", "{\"error\":\"invalid_client\"}",
              "{\"count\":2,\"technicians\":[t1,t2]}",
              "{\"count\":4,\"technicians\":\"none\"}"}

JsonParse(text) ==
    CASE text = "null" -> JNull
      [] text = "{}" -> JObj(<<>>)
      [] text = "{\"access_token\":\"tok\"}" -> JObj([access_token |-> JStr("tok")])
      [] text = "{\"data\":[t1,t2]}" -> JObj([data |-> JArr(<<Tech1, Tech2>>)])
      [] text = "{\"data\":\"none\"}" -> JObj([data |-> JStr("none")])
      [] text = "{\"error\":\"invalid_client\"}" ->
            JObj([error |-> JStr("invalid_client")])
      [] text = "{\"count\":2,\"technicians\":[t1,t2]}" ->
            JObj([count |-> JNum(2), technicians |-> JArr(<<Tech1, Tech2>>)])
      [] text = "{\"count\":4,\"technicians\":\"none\"}" ->
            JObj([count |-> JNum(4), technicians |-> JStr("none")])

TokenBodies ==
    {"null", "{}", "{\"access_token\":\"tok\"}", "{\"error\":\"invalid_client\"}",
     "<html>Bad Gateway</html>"}

TechBodies ==
    {"null", "{}", "{\"data\":[t1,t2]}", "{\"data\":\"none\"}", "Unauthorized", ""}

HttpResponses(bodies) == [status : StatusCodes, body : bodies, intact : BOOLEAN]

(***************************************************************************)
(* netlify/functions/technicians.js                                        *)
(***************************************************************************)
EnvNames ==
    {"ST_BASE_URL", "ST_TENANT_ID", "ST_APP_KEY", "SERVICETITAN_CLIENT_ID",
     "SERVICETITAN_CLIENT_SECRET"}

\* A variable of process.env is absent (undefined) or a string.
EnvValues == {JUndefined, JStr(""), JStr("set")}

\* The body a handler returns: upstream text passed on, or JSON.stringify(v).
TextBody(s) == [kind |-> "text", text |-> s]
Stringify(v) == [kind |-> "json", value |-> v]

MissingEnvMessage ==
    "Missing env vars. Need ST_BASE_URL, ST_TENANT_ID, ST_APP_KEY, SERVICETITAN_CLIENT_ID, SERVICETITAN_CLIENT_SECRET."

\* Mutant: the check forgets the app key.
EnvMissingForgetsAppKey == \E n \in EnvNames \ {"ST_APP_KEY"} : ~Truthy(env[n])

\* !baseUrl || !tenantId || !appKey || !clientId || !clientSecret
EnvMissing == \E n \in EnvNames : ~Truthy(env[n])

TokenCall ==
    [url |-> "https://auth.servicetitan.io/connect/token", method |-> "POST",
     clientId |-> env["SERVICETITAN_CLIENT_ID"],
     clientSecret |-> env["SERVICETITAN_CLIENT_SECRET"]]

TechniciansCall(tok) ==
    [url |-> "/settings/v2/tenant/{tenantId}/technicians?active=true&page=1&pageSize=200",
     method |-> "GET", baseUrl |-> env["ST_BASE_URL"], tenantId |-> env["ST_TENANT_ID"],
     bearer |-> tok, appKey |-> env["ST_APP_KEY"]]

\* catch (err) { return { statusCode: 500, body: JSON.stringify({ error: err.message }) } }
Caught(message) ==
    [statusCode |-> 500, body |-> Stringify(JObj([error |-> JStr(message)]))]

Return(r) ==
    /\ response' = r
    /\ hpc' = "done"

ProxyIdle ==
    /\ env = <<>>
    /\ hpc = "idle"
    /\ calls = <<>>
    /\ tokenResp = None
    /\ resp = None
    /\ token = None
    /\ response = None

\* Lines 96-100 of part_000: the filters and the grouping as useState makes
\* them.
ViewIdle ==
    /\ selectedTechs = TECHS
    /\ selectedInstallers = INSTALLERS
    /\ groupMode = "tech"

\* Nothing has been exported.
ExportIdle ==
    /\ lines = <<>>
    /\ csv = None
    /\ fileName = None

\* Lines 127-129 of st-test.cjs: the roster's state as useState makes it.
RosterIdle ==
    /\ technicians = JArr(<<>>)
    /\ loadingTechs = TRUE
    /\ techError = JNull
    /\ techLoads = <<>>

\* No component is mounted.
PageIdle ==
    /\ mounted = "none"
    /\ tzOffset = 0
    /\ setterCalls = {}
    /\ date = None
    /\ useRange = FALSE
    /\ rangeStart = None
    /\ rangeEnd = None
    /\ pendingRangeOpen = FALSE
    /\ allData = <<>>
    /\ loads = <<>>

BrowserIdle ==
    /\ PageIdle
    /\ ViewIdle
    /\ ExportIdle
    /\ RosterIdle

ProxyInit ==
    /\ BrowserIdle
    /\ env \in [EnvNames -> EnvValues]
    /\ hpc = "start"
    /\ calls = <<>>
    /\ tokenResp = None
    /\ resp = None
    /\ token = None
    /\ response = None

\* Lines 5-25: the configuration check, then the token request is issued.
HandlerStart ==
    /\ hpc = "start"
    /\ IF EnvMissing
         THEN /\ Return([statusCode |-> 500,
                         body |-> Stringify(JObj([error |-> JStr(MissingEnvMessage)]))])
              /\ UNCHANGED calls
         ELSE /\ calls' = Append(calls, TokenCall)
              /\ hpc' = "awaitToken"
              /\ UNCHANGED response
    /\ UNCHANGED <<env, tokenResp, resp, token>>

\* Line 21 rejects: the catch of line 61.
TokenFetchRejects ==
    /\ hpc = "awaitToken"
    /\ Return(Caught("request to token endpoint failed"))
    /\ UNCHANGED <<env, calls, tokenResp, resp, token>>

\* Line 21 resolves; line 27 picks which body read is awaited next.
TokenFetchResolves ==
    /\ hpc = "awaitToken"
    /\ \E r \in HttpResponses(TokenBodies) :
          /\ tokenResp' = r
          /\ hpc' = IF ~Ok(r.status) THEN "tokenText" ELSE "tokenJson"
    /\ UNCHANGED <<env, calls, resp, token, response>>

\* Mutant: a failed token request is issued again.
TokenFailureRetries ==
    /\ hpc = "tokenText"
    /\ calls' = Append(calls, TokenCall)
    /\ hpc' = "awaitToken"
    /\ UNCHANGED <<env, tokenResp, resp, token, response>>

\* Lines 28-29.
TokenFailure ==
    /\ hpc = "tokenText"
    /\ IF tokenResp.intact
         THEN Return([statusCode |-> tokenResp.status, body |-> TextBody(tokenResp.body)])
         ELSE Return(Caught("body stream failed"))
    /\ UNCHANGED <<env, calls, tokenResp, resp, token>>

\* Lines 32-43: the token is read and the technicians request is issued.
TokenSuccess ==
    /\ hpc = "tokenJson"
    /\ IF ~tokenResp.intact
         THEN Return(Caught("body stream failed")) /\ UNCHANGED <<calls, token>>
         ELSE IF ~IsJson(tokenResp.body)
         THEN Return(Caught("invalid json response body")) /\ UNCHANGED <<calls, token>>
         ELSE IF ~CanGetProp(JsonParse(tokenResp.body))
         THEN Return(Caught("Cannot read properties of null")) /\ UNCHANGED <<calls, token>>
         ELSE /\ token' = GetProp(JsonParse(tokenResp.body), "access_token")
              /\ calls' = Append(calls, TechniciansCall(token'))
              /\ hpc' = "awaitResp"
              /\ UNCHANGED response
    /\ UNCHANGED <<env, tokenResp, resp>>

\* Line 38 rejects.
ResourceFetchRejects ==
    /\ hpc = "awaitResp"
    /\ Return(Caught("request to technicians endpoint failed"))
    /\ UNCHANGED <<env, calls, tokenResp, resp, token>>

\* Line 38 resolves; line 45.
ResourceFetchResolves ==
    /\ hpc = "awaitResp"
    /\ \E r \in HttpResponses(TechBodies) :
          /\ resp' = r
          /\ hpc' = IF ~Ok(r.status) THEN "respText" ELSE "respJson"
    /\ UNCHANGED <<env, calls, tokenResp, token, response>>

\* Mutant: the upstream failure is reported as a 500 with a wrapped body.
ResourceFailureWrapped ==
    /\ hpc = "respText"
    /\ IF resp.intact
         THEN Return([statusCode |-> 500,
                      body |-> Stringify(JObj([error |-> JStr(resp.body)]))])
         ELSE Return(Caught("body stream failed"))
    /\ UNCHANGED <<env, calls, tokenResp, resp, token>>

\* Lines 46-47.
ResourceFailure ==
    /\ hpc = "respText"
    /\ IF resp.intact
         THEN Return([statusCode |-> resp.status, body |-> TextBody(resp.body)])
         ELSE Return(Caught("body stream failed"))
    /\ UNCHANGED <<env, calls, tokenResp, resp, token>>

\* Lines 50-60.
ResourceSuccess ==
    /\ hpc = "respJson"
    /\ IF ~resp.intact
         THEN Return(Caught("body stream failed"))
         ELSE IF ~IsJson(resp.body)
         THEN Return(Caught("invalid json response body"))
         ELSE LET data == JsonParse(resp.body)
              IN  Return([statusCode |-> 200,
                          body |-> Stringify(JObj(
                              [pathUsed |-> JStr("/settings/v2/tenant/{tenantId}/technicians"),
                               authMode |-> JStr("bearer+appkey"),
                               count |-> JNum(LengthOrZero(OptProp(data, "data"))),
                               technicians |-> OrElse(OptProp(data, "data"), JArr(<<>>))]))])
    /\ UNCHANGED <<env, calls, tokenResp, resp, token>>

ProxyOnly == UNCHANGED <<browserVars, reportVars, viewVars, exportVars, rosterVars>>

ProxyNext ==
    \/ HandlerStart /\ ProxyOnly
    \/ TokenFetchRejects /\ ProxyOnly
    \/ TokenFetchResolves /\ ProxyOnly
    \/ TokenFailure /\ ProxyOnly
    \/ TokenSuccess /\ ProxyOnly
    \/ ResourceFetchRejects /\ ProxyOnly
    \/ ResourceFetchResolves /\ ProxyOnly
    \/ ResourceFailure /\ ProxyOnly
    \/ ResourceSuccess /\ ProxyOnly

SpecProxy == ProxyInit /\ [][ProxyNext]_vars

(***************************************************************************)
(* Claims about the proxy handler.                                         *)
(***************************************************************************)
IsTokenCall(c) == c.url = "https://auth.servicetitan.io/connect/token"
IsSuccessStatus(s) == s \in 200..299
Failed(r) == r # None /\ ~IsSuccessStatus(r.status)

\* C2: the outbound calls of an invocation are a prefix of [token request,
\* technicians request]: at most one of each, the technicians request only
\* after the token request returned a success status, and nothing is issued
\* again after a failure or once the handler has returned.
C2_CallsArePrefix ==
    /\ Len(calls) <= 2
    /\ Len(calls) >= 1 => IsTokenCall(calls[1])
    /\ Len(calls) = 2 =>
          /\ ~IsTokenCall(calls[2])
          /\ tokenResp # None
          /\ IsSuccessStatus(tokenResp.status)
    /\ Failed(tokenResp) => Len(calls) = 1
    /\ Failed(resp) => Len(calls) = 2

C2_Witness ==
    /\ hpc = "done"
    /\ Len(calls) = 2
    /\ Failed(resp)

\* C3 as stated: when the token request or the technicians request returns
\* a non-success status, the handler's response carries exactly that status
\* and that body.
C3_Original ==
    hpc = "done" =>
        /\ Failed(tokenResp) =>
              response = [statusCode |-> tokenResp.status, body |-> TextBody(tokenResp.body)]
        /\ Failed(resp) =>
              response = [statusCode |-> resp.status, body |-> TextBody(resp.body)]

\* C3 amended: when the token request or the technicians request returns a
\* non-success status and its body can be read, the handler's response
\* carries exactly that status and that body; when reading the body fails,
\* the handler answers 500 with the error's message.
C3_VerbatimWhenBodyRead ==
    hpc = "done" =>
        /\ Failed(tokenResp) =>
              IF tokenResp.intact
                THEN response = [statusCode |-> tokenResp.status,
                                 body |-> TextBody(tokenResp.body)]
                ELSE response.statusCode = 500 /\ response.body.kind = "json"
        /\ Failed(resp) =>
              IF resp.intact
                THEN response = [statusCode |-> resp.status, body |-> TextBody(resp.body)]
                ELSE response.statusCode = 500 /\ response.body.kind = "json"

C3_Witness ==
    /\ hpc = "done"
    /\ Failed(resp)
    /\ resp.intact
    /\ resp.status = 401
    /\ response = [statusCode |-> 401, body |-> TextBody("Unauthorized")]

IsAbsentOrEmpty(v) == v = JUndefined \/ v = JStr("")

\* C4: when any of the five configuration values is absent or empty, the
\* handler issues no network request and returns 500 with an error message.
C4_MissingConfigFailsFast ==
    (\E n \in EnvNames : IsAbsentOrEmpty(env[n])) =>
        /\ calls = <<>>
        /\ hpc \in {"start", "done"}
        /\ hpc = "done" =>
              /\ response.statusCode = 500
              /\ response.body = Stringify(JObj([error |-> JStr(MissingEnvMessage)]))

C4_Witness ==
    /\ hpc = "done"
    /\ env["ST_APP_KEY"] = JStr("")
    /\ \A n \in EnvNames \ {"ST_APP_KEY"} : env[n] = JStr("set")
    /\ response.statusCode = 500

(***************************************************************************)
(* The browser side: the bounds of the model.                              *)
(***************************************************************************)
\* The user picks dates among ModelFirstDay .. ModelFirstDay + DateSpan,
\* a window across a year's end.
ModelFirstDay == <<2023, 12, 31>>
DateSpan == 1
Dates ==
    {CivilFromDays(DaysFromCivil(ModelFirstDay[1], ModelFirstDay[2], ModelFirstDay[3]) + i) :
        i \in 0..DateSpan}

\* new Date().toISOString().slice(0, 10)
Today == CivilFromDays(DaysFromCivil(ModelFirstDay[1], ModelFirstDay[2], ModelFirstDay[3]) + 1)

\* Hosts west of, at and east of UTC.
TzOffsets == {-300, 0, 60}

\* How many times the report's load effect runs in all, and the roster's.
MaxLoads == 3
MaxTechLoads == 2

(***************************************************************************)
(* The install report's load effect (part_000, lines 103-141).             *)
(***************************************************************************)
normalizeRange(a, b) == IF LeqISO(a, b) THEN <<a, b>> ELSE <<b, a>>

\* The loop of enumerateDatesInclusive from instant d on.
RECURSIVE EnumerateFrom(_, _, _)
EnumerateFrom(d, end, zone) ==
    IF d <= end
      THEN <<ToISODate(d)>> \o EnumerateFrom(SetDate(d, GetDate(d, zone) + 1, zone), end, zone)
      ELSE <<>>

enumerateDatesInclusive(startISO, endISO, zone) ==
    EnumerateFrom(ParseLocal(startISO, zone), ParseLocal(endISO, zone), zone)

\* chunks.flat()
RECURSIVE Flat(_)
Flat(chunks) == IF chunks = <<>> THEN <<>> ELSE Head(chunks) \o Flat(Tail(chunks))

\* Mutant: the result is applied whatever the flag says.
MayApplyAlways(run) == TRUE

\* if (!cancelled) ...
MayApply(run) == ~run.cancelled

Called(setter, run) == [setter |-> setter, cancelled |-> run.cancelled]

\* One run of the effect: `dates` are the fetches it will make (the single
\* date, or the enumerated range), `issued` how many it has started,
\* `outstanding` how many of those have not completed yet.
NewLoad(d, ur, rs, re) ==
    LET range == normalizeRange(rs, re)
        dates == IF ur THEN enumerateDatesInclusive(range[1], range[2], tzOffset) ELSE <<d>>
    IN  [cancelled |-> FALSE, useRange |-> ur, rangeStart |-> rs, rangeEnd |-> re,
         dates |-> dates,
         issued |-> IF dates = <<>> THEN 0 ELSE 1,
         outstanding |-> IF dates = <<>> THEN 0 ELSE 1,
         chunks |-> <<>>,
         done |-> dates = <<>>,
         late |-> FALSE]

\* A run that is both cancelled and finished holds nothing the program can
\* still reach: what remains of it is that it ran, and whether its last
\* fetch completed after the teardown (late).
Spent(late) ==
    [cancelled |-> TRUE, useRange |-> FALSE, rangeStart |-> None, rangeEnd |-> None,
     dates |-> <<>>, issued |-> 0, outstanding |-> 0, chunks |-> <<>>, done |-> TRUE,
     late |-> late]

\* The teardown callback: cancelled = true.
Cancelled(runs) ==
    [i \in DOMAIN runs |->
        IF runs[i].done
          THEN IF runs[i].cancelled THEN runs[i] ELSE Spent(FALSE)
          ELSE [runs[i] EXCEPT !.cancelled = TRUE]]

HasLiveRun(runs) == \E i \in DOMAIN runs : ~runs[i].cancelled

\* The effect body for the dependencies <<d, ur, rs, re>>: the previous run's
\* teardown sets its flag, then load() runs up to its first await.
RunLoadEffect(d, ur, rs, re) ==
    LET run == NewLoad(d, ur, rs, re)
    IN  /\ loads' = Append(Cancelled(loads), run)
        /\ IF run.done /\ MayApply(run)
             THEN /\ allData' = <<>>
                  /\ setterCalls' = setterCalls \cup {Called("setAllData", run)}
             ELSE UNCHANGED <<allData, setterCalls>>

\* A handler's state updates, and the effect when a dependency changed.
SetParams(d, ur, rs, re) ==
    /\ date' = d
    /\ useRange' = ur
    /\ rangeStart' = rs
    /\ rangeEnd' = re
    /\ IF <<d, ur, rs, re>> # <<date, useRange, rangeStart, rangeEnd>>
         THEN Len(loads) < MaxLoads /\ RunLoadEffect(d, ur, rs, re)
         ELSE UNCHANGED <<loads, allData, setterCalls>>

ReportFrame == UNCHANGED <<proxyVars, rosterVars, viewVars, exportVars, mounted, tzOffset>>

\* The effect after the first render (and again after a teardown that is
\* followed by a remount, as React's strict mode does).
ReportEffect ==
    /\ mounted = "report"
    /\ ~HasLiveRun(loads)
    /\ Len(loads) < MaxLoads
    /\ RunLoadEffect(date, useRange, rangeStart, rangeEnd)
    /\ UNCHANGED <<date, useRange, rangeStart, rangeEnd, pendingRangeOpen>>

\* The teardown callback, line 126.
ReportTeardown ==
    /\ mounted = "report"
    /\ HasLiveRun(loads)
    /\ loads' = Cancelled(loads)
    /\ UNCHANGED <<date, useRange, rangeStart, rangeEnd, pendingRangeOpen, allData,
                   setterCalls>>

Interactive == mounted = "report" /\ HasLiveRun(loads)

\* Line 332.
DateInput(d) ==
    /\ Interactive
    /\ ~useRange
    /\ SetParams(d, useRange, rangeStart, rangeEnd)
    /\ UNCHANGED pendingRangeOpen

\* Lines 221-225.
shiftDate(days) ==
    /\ Interactive
    /\ ~useRange
    /\ LET d == ParseUTC(date)
           shifted == ToISODate(SetDate(d, GetDate(d, tzOffset) + days, tzOffset))
       IN  /\ shifted \in Dates
           /\ SetParams(shifted, useRange, rangeStart, rangeEnd)
    /\ UNCHANGED pendingRangeOpen

\* Lines 226-229.
goToday ==
    /\ Interactive
    /\ SetParams(Today, FALSE, rangeStart, rangeEnd)
    /\ UNCHANGED pendingRangeOpen

\* Line 335.
TogglePendingRange ==
    /\ Interactive
    /\ ~useRange
    /\ pendingRangeOpen' = ~pendingRangeOpen
    /\ UNCHANGED <<date, useRange, rangeStart, rangeEnd, allData, loads, setterCalls>>

RangeControlsShown == useRange \/ pendingRangeOpen

\* Lines 340 and 359.
RangeStartInput(d) ==
    /\ Interactive
    /\ RangeControlsShown
    /\ SetParams(date, useRange, d, rangeEnd)
    /\ UNCHANGED pendingRangeOpen

\* Lines 342 and 361.
RangeEndInput(d) ==
    /\ Interactive
    /\ RangeControlsShown
    /\ SetParams(date, useRange, rangeStart, d)
    /\ UNCHANGED pendingRangeOpen

\* Lines 232-238.
applyRange ==
    /\ Interactive
    /\ RangeControlsShown
    /\ LET range == normalizeRange(rangeStart, rangeEnd)
       IN  SetParams(date, TRUE, range[1], range[2])
    /\ pendingRangeOpen' = FALSE

\* Lines 239-241.
exitRange ==
    /\ Interactive
    /\ useRange
    /\ SetParams(date, FALSE, rangeStart, rangeEnd)
    /\ UNCHANGED pendingRangeOpen

\* The fetch a run is waiting for resolves (lines 108-110 and 118-122).
LoadFetchCompletes(i) ==
    /\ mounted = "report"
    /\ i \in DOMAIN loads
    /\ loads[i].outstanding > 0
    /\ LET run == loads[i]
           data == fetchInstallsDemo(run.dates[run.issued], tzOffset)
           chunks == Append(run.chunks, data)
           finished == [run EXCEPT !.outstanding = @ - 1, !.done = TRUE]
       IN  IF ~run.useRange
             THEN /\ loads' = [loads EXCEPT ![i] =
                                  IF run.cancelled THEN Spent(TRUE) ELSE finished]
                  /\ IF MayApply(run)
                       THEN /\ allData' = data
                            /\ setterCalls' = setterCalls \cup {Called("setAllData", run)}
                       ELSE UNCHANGED <<allData, setterCalls>>
             ELSE IF run.cancelled
             THEN /\ loads' = [loads EXCEPT ![i] = Spent(TRUE)]
                  /\ UNCHANGED <<allData, setterCalls>>
             ELSE IF run.issued < Len(run.dates)
             THEN /\ loads' = [loads EXCEPT ![i] =
                                  [run EXCEPT !.chunks = chunks, !.issued = @ + 1]]
                  /\ UNCHANGED <<allData, setterCalls>>
             ELSE /\ loads' = [loads EXCEPT ![i] = [finished EXCEPT !.chunks = chunks]]
                  /\ IF MayApply(run)
                       THEN /\ allData' = Flat(chunks)
                            /\ setterCalls' = setterCalls \cup {Called("setAllData", run)}
                       ELSE UNCHANGED <<allData, setterCalls>>
    /\ UNCHANGED <<date, useRange, rangeStart, rangeEnd, pendingRangeOpen>>

(***************************************************************************)
(* The technician roster: getTechnicians and the load effect               *)
(* (st-test.cjs, lines 99-111 and 135-152).                                *)
(***************************************************************************)
\* What /.netlify/functions/technicians may answer.
AdapterBodies ==
    {"{\"count\":2,\"technicians\":[t1,t2]}", "{\"count\":4,\"technicians\":\"none\"}",
     "{\"error\":\"invalid_client\"}", "null", "Unauthorized"}

\* Mutant: the setters are called whatever the flag says.
TechMayApplyAlways(run) == TRUE

\* if (!cancelled) ...
TechMayApply(run) == ~run.cancelled

\* data.technicians || []
TechniciansOrEmpty(data) == OrElse(GetProp(data, "technicians"), JArr(<<>>))

RosterFrame == UNCHANGED <<proxyVars, reportVars, viewVars, exportVars, mounted, tzOffset>>

\* Lines 135-140: the effect runs load() up to the await of getTechnicians,
\* which has issued its fetch.
RosterEffect ==
    /\ mounted = "roster"
    /\ ~HasLiveRun(techLoads)
    /\ Len(techLoads) < MaxTechLoads
    /\ LET run == [cancelled |-> FALSE, pc |-> "fetch", res |-> None, result |-> None]
       IN  /\ techLoads' = Append(techLoads, run)
           /\ loadingTechs' = TRUE
           /\ setterCalls' = setterCalls \cup {Called("setLoadingTechs", run)}
    /\ UNCHANGED <<technicians, techError>>

\* Lines 149-151.
RosterTeardown ==
    /\ mounted = "roster"
    /\ HasLiveRun(techLoads)
    /\ techLoads' = [i \in DOMAIN techLoads |-> [techLoads[i] EXCEPT !.cancelled = TRUE]]
    /\ UNCHANGED <<technicians, loadingTechs, techError, setterCalls>>

\* getTechnicians resolves to `list` and load() goes on (lines 141-146).
\* getTechnicians has no path that rejects, so the catch of line 142 is
\* never entered and setTechError is never called.
Resolve(i, r, list) ==
    LET run == techLoads[i]
    IN  /\ techLoads' = [techLoads EXCEPT ![i] =
                             [run EXCEPT !.pc = "done", !.res = r, !.result = list]]
        /\ IF TechMayApply(run)
             THEN /\ technicians' = list
                  /\ loadingTechs' = FALSE
                  /\ setterCalls' = setterCalls \cup
                        {Called("setTechnicians", run), Called("setLoadingTechs", run)}
             ELSE UNCHANGED <<technicians, loadingTechs, setterCalls>>
        /\ UNCHANGED techError

\* Line 101 rejects: the catch of lines 107-110.
AdapterFetchRejects(i) ==
    /\ mounted = "roster"
    /\ i \in DOMAIN techLoads
    /\ techLoads[i].pc = "fetch"
    /\ Resolve(i, None, JArr(<<>>))

\* Line 101 resolves; lines 102-105.
AdapterFetchResolves(i) ==
    /\ mounted = "roster"
    /\ i \in DOMAIN techLoads
    /\ techLoads[i].pc = "fetch"
    /\ \E r \in HttpResponses(AdapterBodies) :
          IF ~Ok(r.status)
            THEN Resolve(i, r, JArr(<<>>))
            ELSE /\ techLoads' = [techLoads EXCEPT ![i] =
                                     [techLoads[i] EXCEPT !.pc = "json", !.res = r]]
                 /\ UNCHANGED <<technicians, loadingTechs, techError, setterCalls>>

\* Lines 105-106: res.json() settles.
AdapterJsonSettles(i) ==
    /\ mounted = "roster"
    /\ i \in DOMAIN techLoads
    /\ techLoads[i].pc = "json"
    /\ LET r == techLoads[i].res
       IN  IF ~r.intact \/ ~IsJson(r.body) \/ ~CanGetProp(JsonParse(r.body))
             THEN Resolve(i, r, JArr(<<>>))
             ELSE Resolve(i, r, TechniciansOrEmpty(JsonParse(r.body)))

EffectsInit ==
    /\ ProxyIdle
    /\ \/ mounted = "report" /\ tzOffset \in TzOffsets
       \/ mounted = "roster" /\ tzOffset = 0
    /\ setterCalls = {}
    /\ date = IF mounted = "report" THEN Today ELSE None
    /\ useRange = FALSE
    /\ rangeStart = date
    /\ rangeEnd = date
    /\ pendingRangeOpen = FALSE
    /\ allData = <<>>
    /\ loads = <<>>
    /\ ViewIdle
    /\ ExportIdle
    /\ RosterIdle

EffectsNext ==
    \/ ReportEffect /\ ReportFrame
    \/ ReportTeardown /\ ReportFrame
    \/ \E d \in Dates : DateInput(d) /\ ReportFrame
    \/ \E days \in {-1, 1} : shiftDate(days) /\ ReportFrame
    \/ goToday /\ ReportFrame
    \/ TogglePendingRange /\ ReportFrame
    \/ \E d \in Dates : RangeStartInput(d) /\ ReportFrame
    \/ \E d \in Dates : RangeEndInput(d) /\ ReportFrame
    \/ applyRange /\ ReportFrame
    \/ exitRange /\ ReportFrame
    \/ \E i \in 1..MaxLoads : LoadFetchCompletes(i) /\ ReportFrame
    \/ RosterEffect /\ RosterFrame
    \/ RosterTeardown /\ RosterFrame
    \/ \E i \in 1..MaxTechLoads : AdapterFetchRejects(i) /\ RosterFrame
    \/ \E i \in 1..MaxTechLoads : AdapterFetchResolves(i) /\ RosterFrame
    \/ \E i \in 1..MaxTechLoads : AdapterJsonSettles(i) /\ RosterFrame

SpecEffects == EffectsInit /\ [][EffectsNext]_vars

(***************************************************************************)
(* Claims about the load effects and the adapter.                          *)
(***************************************************************************)
\* C1: once the teardown of an effect run has set its cancelled flag, that
\* run calls no state setter: neither setAllData (single day or range) nor
\* setTechnicians, setTechError or setLoadingTechs, whenever its fetch
\* completes.  (setTechError is called by no run at all.)
C1_NoSetterAfterCancel ==
    /\ \A c \in setterCalls : ~c.cancelled
    /\ \A c \in setterCalls : c.setter # "setTechError"

\* A load's fetch completed after its teardown, and the range load that
\* replaced it has applied its result.
C1_Witness ==
    /\ \E i \in DOMAIN loads : loads[i].cancelled /\ loads[i].done /\ loads[i].late
    /\ \E j \in DOMAIN loads : ~loads[j].cancelled /\ loads[j].done /\ loads[j].useRange
    /\ allData # <<>>

\* The list the claim expects of a finished run of getTechnicians.
HasExpectedShape(r) ==
    /\ r # None
    /\ r.status \in 200..299
    /\ r.intact
    /\ IsJson(r.body)
    /\ JsonParse(r.body).type = "object"
    /\ "technicians" \in DOMAIN JsonParse(r.body).props
    /\ JsonParse(r.body).props["technicians"].type = "array"

\* C5 as stated: getTechnicians always resolves to a list: the payload's
\* technician list when the call succeeds with the expected shape, the empty
\* list on a rejection, a non-success status, unparsable JSON or a payload
\* whose technicians are missing or not a list.
C5_Original ==
    \A i \in DOMAIN techLoads :
        techLoads[i].pc = "done" =>
            /\ techLoads[i].result.type = "array"
            /\ techLoads[i].result =
                  IF HasExpectedShape(techLoads[i].res)
                    THEN JsonParse(techLoads[i].res.body).props["technicians"]
                    ELSE JArr(<<>>)

IsLeapYear(y) == y % 4 = 0 /\ (y % 100 # 0 \/ y % 400 = 0)

DaysInMonth(y, m) ==
    CASE m \in {4, 6, 9, 11} -> 30
      [] m = 2 -> IF IsLeapYear(y) THEN 29 ELSE 28
      [] OTHER -> 31

NextDay(iso) ==
    IF iso[3] < DaysInMonth(iso[1], iso[2]) THEN <<iso[1], iso[2], iso[3] + 1>>
    ELSE IF iso[2] < 12 THEN <<iso[1], iso[2] + 1, 1>>
    ELSE <<iso[1] + 1, 1, 1>>

\* The calendar days from lo to hi, both included (lo not after hi).
RECURSIVE SpanDays(_, _)
SpanDays(lo, hi) == IF lo = hi THEN <<lo>> ELSE <<lo>> \o SpanDays(NextDay(lo), hi)

ExpectedDays(run) ==
    IF LeqISO(run.rangeStart, run.rangeEnd)
      THEN SpanDays(run.rangeStart, run.rangeEnd)
      ELSE SpanDays(run.rangeEnd, run.rangeStart)

RECURSIVE RecordsOfDays(_, _)
RecordsOfDays(days, zone) ==
    IF days = <<>> THEN <<>>
    ELSE fetchInstallsDemo(Head(days), zone) \o RecordsOfDays(Tail(days), zone)

\* C6 as stated: a range load fetches the calendar days of the inclusive
\* span from the earlier to the later of rangeStart and rangeEnd, one fetch
\* a day, in ascending order, at most one outstanding at a time; when it
\* completes uncancelled, allData is the days' results in date order.
C6_Original ==
    \A i \in DOMAIN loads :
        loads[i].useRange =>
            LET run == loads[i]
                days == ExpectedDays(run)
            IN  /\ run.outstanding <= 1
                /\ run.issued <= Len(days)
                /\ SubSeq(run.dates, 1, run.issued) = SubSeq(days, 1, run.issued)
                /\ (run.done /\ ~run.cancelled) =>
                      /\ run.issued = Len(days)
                      /\ allData = RecordsOfDays(days, tzOffset)

\* The same holds on hosts that are not east of UTC.
C6_HoldsWestOfUTC == tzOffset <= 0 => C6_Original

(***************************************************************************)
(* The reporting aggregator of part_000.  filtered, grouped, the range     *)
(* summaries and the grand totals are recomputed from the state on every   *)
(* render (useMemo), so they are operators over the variables.             *)
(*                                                                         *)
(* Money: an invoice amount is a whole number of dollars (dollars() yields *)
(* multiples of 50 from 1200 to 5200); a commission has cents, so          *)
(* commissions are integers counting cents.  With such amounts             *)
(* amount * rate has at most two decimals, so toFixed(2) never meets a     *)
(* tie and the floating-point product rounds to the exact value.           *)
(***************************************************************************)
\* Array.prototype.includes
Includes(arr, x) == \E i \in DOMAIN arr : arr[i] = x

\* Line 153 with || in place of &&.
MatchesEither(d) ==
    Includes(selectedTechs, d.soldByTech) \/ Includes(selectedInstallers, d.installerName)

\* Line 153: the predicate of the filter.
Matches(d) ==
    Includes(selectedTechs, d.soldByTech) /\ Includes(selectedInstallers, d.installerName)

\* Lines 150-156 without the installer half of the predicate.
filteredByTechOnly ==
    SelectSeq(allData, LAMBDA d : Includes(selectedTechs, d.soldByTech))

\* Lines 150-156.
filtered == SelectSeq(allData, Matches)

\* Array.prototype.sort with a comparator that orders by a number,
\* descending.  The sort is stable: SortedDesc(keys, n) lists the indexes
\* 1..n by non-increasing key, equal keys in index order.
RECURSIVE SortedDesc(_, _)
SortedDesc(keys, n) ==
    IF n = 0 THEN <<>>
    ELSE LET prev == SortedDesc(keys, n - 1)
             k == Cardinality({p \in DOMAIN prev : keys[prev[p]] >= keys[n]})
         IN  SubSeq(prev, 1, k) \o <<n>> \o SubSeq(prev, k + 1, Len(prev))

\* The sort left out: the array as it was.
SortLeftOut(items, keys) == items

SortDescBy(items, keys) ==
    LET order == SortedDesc(keys, Len(items))
    IN  [i \in DOMAIN items |-> items[order[i]]]

\* a.localeCompare(b) on the roster's names: their place in the alphabet.
Alphabetical ==
    <<"Adam", "Austin", "Bubba", "Hunter", "Josh", "Kaleb", "Miguel", "Mike", "Steven", "Tim">>

localeRank(name) == CHOOSE i \in DOMAIN Alphabetical : Alphabetical[i] = name

\* Line 160.
keyFor(r) == IF groupMode = "tech" THEN r.soldByTech ELSE r.installerName

\* Lines 161-166: the keys of the Map, in insertion order.
RECURSIVE MapKeys(_)
MapKeys(records) ==
    IF records = <<>> THEN <<>>
    ELSE LET before == MapKeys(SubSeq(records, 1, Len(records) - 1))
             k == keyFor(records[Len(records)])
         IN  IF Includes(before, k) THEN before ELSE Append(before, k)

\* Lines 164-165 with map.set(k, [r]) in place of the push: a later record
\* replaces the group.
MapGetLastOnly(label) ==
    LET all == SelectSeq(filtered, LAMBDA r : keyFor(r) = label)
    IN  IF all = <<>> THEN <<>> ELSE <<all[Len(all)]>>

\* Lines 162-166, 169: map.get(label), the records pushed under the key.
MapGet(label) == SelectSeq(filtered, LAMBDA r : keyFor(r) = label)

\* Line 170 (and 308-314): reduce with +.
RECURSIVE Sum(_)
Sum(numbers) == IF numbers = <<>> THEN 0 ELSE Head(numbers) + Sum(Tail(numbers))

\* Lines 159-173.
grouped ==
    LET keys == MapKeys(filtered)
        groupLabels == SortDescBy(keys, [i \in DOMAIN keys |-> 0 - localeRank(keys[i])])
    IN  [g \in DOMAIN groupLabels |->
            LET got == MapGet(groupLabels[g])
                rows == SortDescBy(got, [i \in DOMAIN got |-> got[i].invoiceAmount])
            IN  [label |-> groupLabels[g],
                 rows |-> rows,
                 subtotal |-> Sum([i \in DOMAIN rows |-> rows[i].invoiceAmount])]]

\* The rates of lines 180 and 194 (and 244), per mille.
InstallerRate == 75
TechRate == 50

\* +(amount * rate).toFixed(2), in cents: amount * rate counts tenths of a
\* cent, rounded to the nearest cent.
Commission(amount, rate) == (amount * rate + 5) \div 10

\* Lines 181-187 (195-201): one summary row per group, by total descending.
SummaryOf(rate) ==
    LET groups == grouped
        rows == [g \in DOMAIN groups |->
                    [name |-> groups[g].label,
                     count |-> Len(groups[g].rows),
                     total |-> groups[g].subtotal,
                     commission |-> Commission(groups[g].subtotal, rate)]]
    IN  SortDescBy(rows, [i \in DOMAIN rows |-> groups[i].subtotal])

\* Lines 176-188.
showInstallerSummary == useRange /\ groupMode = "installer"
installerSummary == IF ~showInstallerSummary THEN <<>> ELSE SummaryOf(InstallerRate)

\* Lines 190-202.
showTechSummary == useRange /\ groupMode = "tech"
techSummary == IF ~showTechSummary THEN <<>> ELSE SummaryOf(TechRate)

\* Line 306.
summaryRows ==
    IF showInstallerSummary THEN installerSummary
    ELSE IF showTechSummary THEN techSummary
    ELSE <<>>

\* Lines 307-317.
grand ==
    LET rows == summaryRows
    IN  IF Len(rows) = 0 THEN [count |-> 0, total |-> 0, commission |-> 0]
        ELSE [count |-> Sum([i \in DOMAIN rows |-> rows[i].count]),
              total |-> Sum([i \in DOMAIN rows |-> rows[i].total]),
              commission |-> Sum([i \in DOMAIN rows |-> rows[i].commission])]

\* Line 294-296.
toggleGrouping ==
    /\ mounted = "report"
    /\ groupMode' = IF groupMode = "tech" THEN "installer" ELSE "tech"
    /\ UNCHANGED <<selectedTechs, selectedInstallers, exportVars>>

\* Lines 206 and 214 without the includes test: the name is always added.
ToggledAlwaysAdds(prev, t) == Append(prev, t)

\* Lines 206 and 214: the updater of toggleTech and toggleInstaller.
Toggled(prev, t) ==
    IF Includes(prev, t) THEN SelectSeq(prev, LAMBDA x : x # t) ELSE Append(prev, t)

(***************************************************************************)
(* The CSV export.  A text is a sequence of symbols: the double quote, the *)
(* comma and the line feed are symbols of their own, any other symbol is a *)
(* run of ordinary characters.  A cell of lines is a string or a number    *)
(* (line 256); numbers count cents.                                        *)
(***************************************************************************)
Quote == "\""
Comma == ","
LineFeed == "\n"

StrCell(symbols) == [str |-> symbols]
NumCell(cents) == [num |-> cents]

TwoDigits(n) == IF n < 10 THEN "0" \o ToString(n) ELSE ToString(n)

\* An ISO date as the string the record holds.
IsoText(iso) == ToString(iso[1]) \o "-" \o TwoDigits(iso[2]) \o "-" \o TwoDigits(iso[3])

\* String(n) of a number with at most two decimals: no trailing zeros, no
\* decimal point for a whole number.
NumberText(cents) ==
    LET whole == ToString(cents \div 100)
        frac == cents % 100
    IN  IF frac = 0 THEN whole
        ELSE IF frac % 10 = 0 THEN whole \o "." \o ToString(frac \div 10)
        ELSE whole \o "." \o TwoDigits(frac)

\* Line 282: String(cell).
String(cell) ==
    IF "str" \in DOMAIN cell THEN cell.str ELSE <<NumberText(cell.num)>>

\* Line 282 with replace('"', '""'): only the first quote is doubled.
RECURSIVE ReplaceFirstQuote(_)
ReplaceFirstQuote(symbols) ==
    IF symbols = <<>> THEN <<>>
    ELSE IF Head(symbols) = Quote THEN <<Quote, Quote>> \o Tail(symbols)
    ELSE <<Head(symbols)>> \o ReplaceFirstQuote(Tail(symbols))

\* Line 282: .replace(/"/g, '""').
RECURSIVE ReplaceQuotes(_)
ReplaceQuotes(symbols) ==
    IF symbols = <<>> THEN <<>>
    ELSE (IF Head(symbols) = Quote THEN <<Quote, Quote>> ELSE <<Head(symbols)>>)
            \o ReplaceQuotes(Tail(symbols))

\* Array.prototype.join
RECURSIVE Join(_, _)
Join(texts, sep) ==
    IF texts = <<>> THEN <<>>
    ELSE IF Len(texts) = 1 THEN texts[1]
    ELSE texts[1] \o sep \o Join(Tail(texts), sep)

\* Line 282: one cell, quoted.
CsvField(cell) == <<Quote>> \o ReplaceQuotes(String(cell)) \o <<Quote>>

\* Line 282: the csv line builder.
CsvText(ls) ==
    Join([i \in DOMAIN ls |->
            Join([j \in DOMAIN ls[i] |-> CsvField(ls[i][j])], <<Comma>>)],
         <<LineFeed>>)

\* Line 244 with the two rates exchanged.
commissionRateSwapped == IF groupMode = "tech" THEN InstallerRate ELSE TechRate

\* Line 244.
commissionRate == IF groupMode = "tech" THEN TechRate ELSE InstallerRate

\* Lines 246-255.
headers ==
    <<StrCell(<<"Group">>), StrCell(<<"Sales Tech">>), StrCell(<<"Invoice $$">>),
      StrCell(<<"COMMISSION">>), StrCell(<<"Customer">>), StrCell(<<"Installer">>),
      StrCell(<<"Sold Date">>), StrCell(<<"Install Date">>)>>

\* Lines 258-269: the line of one record of group g.
RecordLine(g, r) ==
    <<StrCell(<<g.label>>),
      StrCell(<<r.soldByTech>>),
      NumCell(r.invoiceAmount * 100),
      NumCell(Commission(r.invoiceAmount, commissionRate)),
      StrCell(r.customerName),
      StrCell(<<r.installerName>>),
      StrCell(<<IsoText(r.soldDate)>>),
      StrCell(<<IsoText(r.installDate)>>)>>

\* Lines 271-280: the subtotal line of group g.
SubtotalLine(g) ==
    <<StrCell(<<"Subtotal for ", g.label>>),
      StrCell(<<>>),
      NumCell(g.subtotal * 100),
      NumCell(Commission(g.subtotal, commissionRate)),
      StrCell(<<>>), StrCell(<<>>), StrCell(<<>>), StrCell(<<>>)>>

\* Lines 257-281 with each subtotal line pushed before its group's records.
RECURSIVE GroupLinesSubtotalFirst(_)
GroupLinesSubtotalFirst(groups) ==
    IF groups = <<>> THEN <<>>
    ELSE LET g == Head(groups)
         IN  <<SubtotalLine(g)>>
                \o [i \in DOMAIN g.rows |-> RecordLine(g, g.rows[i])]
                \o GroupLinesSubtotalFirst(Tail(groups))

\* Lines 256-281: the lines array.
RECURSIVE GroupLines(_)
GroupLines(groups) ==
    IF groups = <<>> THEN <<>>
    ELSE LET g == Head(groups)
         IN  [i \in DOMAIN g.rows |-> RecordLine(g, g.rows[i])]
                \o <<SubtotalLine(g)>>
                \o GroupLines(Tail(groups))

\* Line 287: the download name.
DownloadName ==
    <<"installs_">>
        \o (IF useRange THEN <<IsoText(rangeStart), "_to_", IsoText(rangeEnd)>>
                        ELSE <<IsoText(date)>>)
        \o <<"_", groupMode, ".csv">>

\* Lines 245-290.
exportCSV ==
    /\ mounted = "report"
    /\ lines' = <<headers>> \o GroupLines(grouped)
    /\ csv' = CsvText(lines')
    /\ fileName' = DownloadName
    /\ UNCHANGED viewVars

(***************************************************************************)
(* The aggregator is a pure function of allData, the two selections, the   *)
(* grouping and the range flag.  SpecReport draws these inputs: allData is *)
(* any list of up to MaxRecords of the records the generator makes for one *)
(* day, a selection is one that the checkboxes can produce.                *)
(***************************************************************************)
MaxRecords == 3

DemoRecords == {fetchInstallsDemo(Today, 0)[i] : i \in 1..(Len(INSTALLERS) * InstallsPerInstaller)}

\* The records drawn for the report: those of three of the four installers.
ReportRecords == {r \in DemoRecords : r.installerName # "Bubba"}

RECURSIVE ListsUpTo(_, _)
ListsUpTo(S, n) ==
    IF n = 0 THEN {<<>>}
    ELSE LET shorter == ListsUpTo(S, n - 1)
         IN  shorter \cup {Append(l, x) : l \in shorter, x \in S}

TechSelections == {TECHS, <<>>, Toggled(TECHS, "Tim"), Toggled(Toggled(TECHS, "Tim"), "Tim")}
InstallerSelections == {INSTALLERS, <<>>, Toggled(INSTALLERS, "Josh")}

ReportInit ==
    /\ ProxyIdle
    /\ RosterIdle
    /\ ExportIdle
    /\ mounted = "report"
    /\ tzOffset = 0
    /\ setterCalls = {}
    /\ date = Today
    /\ rangeStart = Today
    /\ rangeEnd = Today
    /\ pendingRangeOpen = FALSE
    /\ loads = <<>>
    /\ useRange \in BOOLEAN
    /\ allData \in ListsUpTo(ReportRecords, MaxRecords)
    /\ selectedTechs \in TechSelections
    /\ selectedInstallers \in InstallerSelections
    /\ groupMode = "tech"

AggregatorFrame == UNCHANGED <<proxyVars, browserVars, reportVars, rosterVars>>

ReportNext ==
    \/ toggleGrouping /\ AggregatorFrame
    \/ exportCSV /\ AggregatorFrame

SpecReport == ReportInit /\ [][ReportNext]_vars

(***************************************************************************)
(* Claims about the aggregator.                                            *)
(***************************************************************************)
AsSet(seq) == {seq[i] : i \in DOMAIN seq}

RECURSIVE TotalInvoiced(_)
TotalInvoiced(records) ==
    IF records = <<>> THEN 0
    ELSE records[1].invoiceAmount + TotalInvoiced(Tail(records))

RECURSIVE SubtotalsAdded(_)
SubtotalsAdded(groups) ==
    IF groups = <<>> THEN 0 ELSE groups[1].subtotal + SubtotalsAdded(Tail(groups))

BothFiltersFull ==
    /\ AsSet(selectedTechs) = AsSet(TECHS)
    /\ AsSet(selectedInstallers) = AsSet(INSTALLERS)

\* C7: when the selected technicians and the selected installers are both
\* the whole roster, the group subtotals add up to the sum of the invoice
\* amounts of all records of allData, grouped by technician or by installer;
\* in range mode the grand total of the summary is that sum as well.
C7_FullFiltersKeepEveryAmount ==
    BothFiltersFull =>
        /\ SubtotalsAdded(grouped) = TotalInvoiced(allData)
        /\ useRange => grand.total = TotalInvoiced(allData)

C7_Witness ==
    /\ BothFiltersFull
    /\ groupMode = "installer"
    /\ useRange
    /\ Len(allData) >= 3
    /\ Len(grouped) >= 2
    /\ \E g \in DOMAIN grouped : Len(grouped[g].rows) >= 2
    /\ selectedTechs # TECHS

\* C8: when no technician is selected the aggregator yields no group, no
\* summary row and grand totals of zero, whatever the records, the installer
\* selection and the grouping.
C8_NoTechnicianNoGroups ==
    selectedTechs = <<>> =>
        /\ grouped = <<>>
        /\ summaryRows = <<>>
        /\ grand = [count |-> 0, total |-> 0, commission |-> 0]

C8_Witness ==
    /\ selectedTechs = <<>>
    /\ selectedInstallers = INSTALLERS
    /\ Len(allData) >= 2
    /\ useRange
    /\ groupMode = "installer"
    /\ lines # <<>>

\* round(n / d) for positive d, ties upwards.
RoundHalfUp(n, d) == (2 * n + d) \div (2 * d)

\* round(subtotal * rate, 2) in cents: the rate is 0.05 by technician and
\* 0.075 by installer, that is 5 cents or 7.5 cents to the dollar.
ClaimedCommission(subtotal, mode) ==
    IF mode = "tech" THEN subtotal * 5 ELSE RoundHalfUp(subtotal * 75, 10)

\* The grouping an export was made under, as its download name has it.
ExportedMode == fileName[Len(fileName) - 1]

IsSubtotalLine(line) == Len(line[1].str) = 2 /\ line[1].str[1] = "Subtotal for "

\* The invoice amounts (in cents) of the record lines of the group a
\* subtotal line closes.
AmountsOfGroup(label) ==
    LET of == SelectSeq(lines, LAMBDA l : l[1] = StrCell(<<label>>))
    IN  [i \in DOMAIN of |-> of[i][3].num]

\* C9: the commission reported for a group is round(subtotal * rate, 2),
\* subtotal being the sum of the group's invoice amounts and rate 0.05 when
\* grouped by technician, 0.075 when grouped by installer: in every row of
\* the range summary and in every subtotal row of an exported CSV.
C9_CommissionIsRoundedShare ==
    /\ LET groups == grouped
           rows == summaryRows
       IN  \A s \in DOMAIN rows :
                \E g \in DOMAIN groups :
                    /\ groups[g].label = rows[s].name
                    /\ rows[s].total = TotalInvoiced(groups[g].rows)
                    /\ rows[s].commission
                            = ClaimedCommission(TotalInvoiced(groups[g].rows), groupMode)
    /\ \A i \in DOMAIN lines :
            (i > 1 /\ IsSubtotalLine(lines[i])) =>
                LET cents == Sum(AmountsOfGroup(lines[i][1].str[2]))
                IN  /\ cents % 100 = 0
                    /\ lines[i][3] = NumCell(cents)
                    /\ lines[i][4] = NumCell(ClaimedCommission(cents \div 100, ExportedMode))

C9_Witness ==
    /\ groupMode = "installer"
    /\ useRange
    /\ Len(summaryRows) >= 2
    /\ \E g \in DOMAIN grouped : Len(grouped[g].rows) >= 2
    /\ lines # <<>>
    /\ ExportedMode = "installer"
    /\ \E i \in DOMAIN lines : i > 1 /\ IsSubtotalLine(lines[i]) /\ lines[i][4].num % 100 # 0

(***************************************************************************)
(* The csv line builder on its own: SpecCsv draws the lines array, one or  *)
(* two string cells in one row or in two rows, of up to MaxCsvLen symbols  *)
(* together, and builds the text.                                          *)
(***************************************************************************)
MaxCsvLen == 3

CsvAlphabet == {"O", "Brien", Quote, Comma, LineFeed}

CsvTables ==
    LET Strings == ListsUpTo(CsvAlphabet, MaxCsvLen)
        Pairs == {p \in Strings \X Strings : Len(p[1]) + Len(p[2]) <= MaxCsvLen}
    IN       {<<<<StrCell(c)>>>> : c \in Strings}
        \cup {<<<<StrCell(p[1]), StrCell(p[2])>>>> : p \in Pairs}
        \cup {<<<<StrCell(p[1])>>, <<StrCell(p[2])>>>> : p \in Pairs}

CsvInit ==
    /\ ProxyIdle
    /\ PageIdle
    /\ ViewIdle
    /\ RosterIdle
    /\ lines \in CsvTables
    /\ csv = None
    /\ fileName = None

\* Line 282 applied to lines.
BuildCsv ==
    /\ csv = None
    /\ csv' = CsvText(lines)
    /\ UNCHANGED <<lines, fileName, viewVars>>

CsvNext == BuildCsv /\ AggregatorFrame

SpecCsv == CsvInit /\ [][CsvNext]_vars

\* A CSV parse as RFC 4180 has it: fields are separated by commas, records
\* by line feeds; a field that starts with a double quote runs to the next
\* double quote that is not doubled, and every doubled one stands for one.
\* The result is the list of records, each the list of its fields; a text
\* that is not well formed parses to no record at all.
RECURSIVE ParseFrom(_, _, _, _, _, _)
ParseFrom(text, i, mode, field, row, rows) ==
    IF i > Len(text)
      THEN IF mode = "quoted" THEN <<>> ELSE Append(rows, Append(row, field))
    ELSE LET c == text[i]
         IN  CASE mode = "start" ->
                    IF c = Quote THEN ParseFrom(text, i + 1, "quoted", <<>>, row, rows)
                    ELSE IF c = Comma
                      THEN ParseFrom(text, i + 1, "start", <<>>, Append(row, <<>>), rows)
                    ELSE IF c = LineFeed
                      THEN ParseFrom(text, i + 1, "start", <<>>, <<>>, Append(rows, Append(row, <<>>)))
                    ELSE ParseFrom(text, i + 1, "bare", <<c>>, row, rows)
               [] mode = "quoted" ->
                    IF c = Quote THEN ParseFrom(text, i + 1, "closing", field, row, rows)
                    ELSE ParseFrom(text, i + 1, "quoted", Append(field, c), row, rows)
               [] mode = "closing" ->
                    IF c = Quote
                      THEN ParseFrom(text, i + 1, "quoted", Append(field, Quote), row, rows)
                    ELSE IF c = Comma
                      THEN ParseFrom(text, i + 1, "start", <<>>, Append(row, field), rows)
                    ELSE IF c = LineFeed
                      THEN ParseFrom(text, i + 1, "start", <<>>, <<>>, Append(rows, Append(row, field)))
                    ELSE <<>>
               [] mode = "bare" ->
                    IF c = Quote THEN <<>>
                    ELSE IF c = Comma
                      THEN ParseFrom(text, i + 1, "start", <<>>, Append(row, field), rows)
                    ELSE IF c = LineFeed
                      THEN ParseFrom(text, i + 1, "start", <<>>, <<>>, Append(rows, Append(row, field)))
                    ELSE ParseFrom(text, i + 1, "bare", Append(field, c), row, rows)

ParseCsv(text) == ParseFrom(text, 1, "start", <<>>, <<>>, <<>>)

QuotesIn(symbols) == Cardinality({i \in DOMAIN symbols : symbols[i] = Quote})

\* C10: the csv line builder wraps every cell in double quotes and doubles
\* each double quote of the cell, so a standard CSV parse of the text gives
\* back every cell as it was, double quotes, commas and line feeds included.
C10_QuotingRoundTrips ==
    csv # None =>
        /\ ParseCsv(csv) = [i \in DOMAIN lines |-> [j \in DOMAIN lines[i] |-> lines[i][j].str]]
        /\ (Len(lines) = 1 /\ Len(lines[1]) = 1) =>
                /\ csv[1] = Quote
                /\ csv[Len(csv)] = Quote
                /\ Len(csv) = Len(lines[1][1].str) + QuotesIn(lines[1][1].str) + 2
                /\ QuotesIn(csv) = 2 * QuotesIn(lines[1][1].str) + 2

\* O"Brien has been emitted as "O""Brien".
C10_Witness ==
    /\ lines = <<<<StrCell(<<"O", Quote, "Brien">>)>>>>
    /\ csv # None
    /\ csv = <<Quote, "O", Quote, Quote, "Brien", Quote>>

(***************************************************************************)
(* The generator on its own: SpecGenerator draws the install date and the  *)
(* host's time zone and generates the day's records.                       *)
(***************************************************************************)
GeneratorFirstDay == <<2023, 12, 15>>
MaxInstallDays == 80

\* The install dates drawn: they run over the end of the year and over the
\* end of February of a leap year.
InstallDates ==
    {CivilFromDays(DaysFromCivil(GeneratorFirstDay[1], GeneratorFirstDay[2], GeneratorFirstDay[3]) + i) :
        i \in 0..MaxInstallDays}

GeneratorInit ==
    /\ ProxyIdle
    /\ ViewIdle
    /\ ExportIdle
    /\ RosterIdle
    /\ mounted = "report"
    /\ tzOffset \in TzOffsets
    /\ setterCalls = {}
    /\ date \in InstallDates
    /\ useRange = FALSE
    /\ rangeStart = date
    /\ rangeEnd = date
    /\ pendingRangeOpen = FALSE
    /\ allData = <<>>
    /\ loads = <<>>

\* Lines 49-76: fetchInstallsDemo(date) resolves.
Generate ==
    /\ allData = <<>>
    /\ allData' = fetchInstallsDemo(date, tzOffset)
    /\ UNCHANGED <<date, useRange, rangeStart, rangeEnd, pendingRangeOpen, loads>>

GeneratorFrame == UNCHANGED <<proxyVars, browserVars, viewVars, exportVars, rosterVars>>

GeneratorNext == Generate /\ GeneratorFrame

SpecGenerator == GeneratorInit /\ [][GeneratorNext]_vars

(***************************************************************************)
(* Claims about the generator.                                             *)
(***************************************************************************)
\* The sold-offset generated for record j of a day: 3 + floor(rng() * 26),
\* on the first of the record's five draws.
GeneratedOffset(dateISO, j) ==
    LET draws == RngStream(RngSeed(strSeed(dateISO)), j * DrawsPerRecord)
    IN  3 + FloorScaled(draws[(j - 1) * DrawsPerRecord + 1], 26)

\* The calendar date k days before a date.
DaysBefore(iso, k) == CivilFromDays(DaysFromCivil(iso[1], iso[2], iso[3]) - k)

\* C11 as stated: every generated record's soldDate is the calendar date
\* exactly k days before its installDate, k in 3..28 being the record's
\* generated sold-offset, on every host time zone.
C11_Original ==
    \A j \in DOMAIN allData :
        LET k == GeneratedOffset(allData[j].installDate, j)
        IN  /\ k \in 3..28
            /\ allData[j].soldDate = DaysBefore(allData[j].installDate, k)

\* On hosts that are not east of UTC the claim holds.
C11_HoldsWestOfUTC == tzOffset <= 0 => C11_Original

\* East of UTC every soldDate is one day earlier than claimed.
C11_OneDayEarlyEastOfUTC ==
    tzOffset > 0 =>
        \A j \in DOMAIN allData :
            allData[j].soldDate
                = DaysBefore(allData[j].installDate, GeneratedOffset(allData[j].installDate, j) + 1)

(***************************************************************************)
(* The filter on records of any names.  InstallRecord leaves soldByTech    *)
(* and installerName free (lines 3-11), so SpecFilter draws allData from   *)
(* generated records and from records that name somebody outside the       *)
(* roster; the operations are those of SpecReport.                         *)
(***************************************************************************)
ForeignRecords ==
    LET r == fetchInstallsDemo(Today, 0)[1]
    IN  {[r EXCEPT !.soldByTech = "Zed"], [r EXCEPT !.installerName = "Nobody"]}

FilterRecords ==
    {r \in DemoRecords : r.installerName \in {"Mike", "Josh"}} \cup ForeignRecords

FilterInit ==
    /\ ProxyIdle
    /\ RosterIdle
    /\ ExportIdle
    /\ mounted = "report"
    /\ tzOffset = 0
    /\ setterCalls = {}
    /\ date = Today
    /\ rangeStart = Today
    /\ rangeEnd = Today
    /\ pendingRangeOpen = FALSE
    /\ loads = <<>>
    /\ useRange \in BOOLEAN
    /\ allData \in ListsUpTo(FilterRecords, MaxRecords)
    /\ selectedTechs \in TechSelections
    /\ selectedInstallers \in InstallerSelections
    /\ groupMode = "tech"

SpecFilter == FilterInit /\ [][ReportNext]_vars

\* The positions of allData whose record names a selected technician and a
\* selected installer.
KeptPositions ==
    {i \in DOMAIN allData :
        /\ allData[i].soldByTech \in AsSet(selectedTechs)
        /\ allData[i].installerName \in AsSet(selectedInstallers)}

\* The n-th smallest member of a set of positions.
NthOf(positions, n) ==
    CHOOSE i \in positions : Cardinality({j \in positions : j <= i}) = n

\* C12: the filtered view holds exactly the records of allData whose
\* technician is among the selected technicians and whose installer is among
\* the selected installers, in the order allData has them; every other
\* record, one naming somebody outside the roster included, is left out.
C12_FilteredIsTheSelectedRecords ==
    LET view == filtered
    IN  /\ Len(view) = Cardinality(KeptPositions)
        /\ \A n \in DOMAIN view : view[n] = allData[NthOf(KeptPositions, n)]
        /\ \A i \in DOMAIN allData :
                (allData[i].soldByTech \notin AsSet(TECHS)
                    \/ allData[i].installerName \notin AsSet(INSTALLERS))
                => i \notin KeptPositions

C12_Witness ==
    /\ Len(allData) >= 3
    /\ Len(filtered) = 2
    /\ filtered[1] # filtered[2]
    /\ allData[1] \in ForeignRecords
    /\ selectedTechs # <<>>
    /\ selectedInstallers = Toggled(INSTALLERS, "Josh")
    /\ lines # <<>>

(***************************************************************************)
(* Claims about the exported file and the order of the aggregator's        *)
(* output, on SpecReport.  An export is judged by the grouping it was made *)
(* under (ExportedMode); the filtered records do not depend on the         *)
(* grouping.                                                               *)
(***************************************************************************)
ExportedKey(r) == IF ExportedMode = "tech" THEN r.soldByTech ELSE r.installerName

SubtotalPositions == {i \in DOMAIN lines : i > 1 /\ IsSubtotalLine(lines[i])}
RecordPositions == {i \in DOMAIN lines : i > 1 /\ ~IsSubtotalLine(lines[i])}

\* The label a subtotal line names.
SubtotalLabel(i) == lines[i][1].str[2]

\* The line carries the record's fields in the order group label,
\* technician, invoice amount, commission, customer, installer, sold date,
\* install date.
IsLineOf(line, r) ==
    /\ line[1] = StrCell(<<ExportedKey(r)>>)
    /\ line[2] = StrCell(<<r.soldByTech>>)
    /\ line[3] = NumCell(r.invoiceAmount * 100)
    /\ line[4] = NumCell(ClaimedCommission(r.invoiceAmount, ExportedMode))
    /\ line[5] = StrCell(r.customerName)
    /\ line[6] = StrCell(<<r.installerName>>)
    /\ line[7] = StrCell(<<IsoText(r.soldDate)>>)
    /\ line[8] = StrCell(<<IsoText(r.installDate)>>)

HeaderNames ==
    <<"Group", "Sales Tech", "Invoice $$", "COMMISSION", "Customer", "Installer",
      "Sold Date", "Install Date">>

\* The text of an export, cut at its line feeds (no cell of an export holds
\* one): the i-th piece.
LineFeeds == {p \in DOMAIN csv : csv[p] = LineFeed}

TextLine(feeds, i) ==
    LET from == IF i = 1 THEN 1 ELSE NthOf(feeds, i - 1) + 1
        to == IF i = Cardinality(feeds) + 1 THEN Len(csv) ELSE NthOf(feeds, i) - 1
    IN  SubSeq(csv, from, to)

\* C13: an exported CSV is one header line, then for each group, in the
\* alphabetical order of the detail view, one line per record of the group
\* and exactly one subtotal line closing it.  Every filtered record has
\* exactly one line, there are 1 + records + groups lines, every line has
\* the 8 fields in the stated order, and the text has these lines and fields.
C13_ExportStructure ==
    lines # <<>> =>
        LET view == filtered
            labels == {ExportedKey(view[n]) : n \in DOMAIN view}
            feeds == LineFeeds
            subtotals == SubtotalPositions
            records == RecordPositions
        IN  /\ lines[1] = [j \in 1..8 |-> StrCell(<<HeaderNames[j]>>)]
            /\ Len(lines) = 1 + Len(view) + Cardinality(labels)
            /\ \A i \in DOMAIN lines : Len(lines[i]) = 8
            \* blocks: records of one group, then the group's subtotal line
            /\ \A i \in records :
                    \E j \in subtotals :
                        /\ j > i
                        /\ \A k \in i..(j - 1) : k \in records
                        /\ lines[i][1] = StrCell(<<SubtotalLabel(j)>>)
            /\ \A j \in subtotals : (j - 1) \in records
            \* one subtotal line per group, in ascending order of label
            /\ {SubtotalLabel(j) : j \in subtotals} = labels
            /\ \A j, k \in subtotals :
                    j < k => localeRank(SubtotalLabel(j)) < localeRank(SubtotalLabel(k))
            /\ \A j \in subtotals :
                    /\ lines[j][2] = StrCell(<<>>)
                    /\ \A c \in 5..8 : lines[j][c] = StrCell(<<>>)
            \* every filtered record exactly once
            /\ \A n \in DOMAIN view :
                    Cardinality({i \in records : IsLineOf(lines[i], view[n])})
                        = Cardinality({m \in DOMAIN view : view[m] = view[n]})
            \* the text
            /\ Cardinality(feeds) + 1 = Len(lines)
            /\ \A i \in DOMAIN lines :
                    ParseCsv(TextLine(feeds, i)) = <<[j \in 1..8 |-> String(lines[i][j])]>>

C13_Witness ==
    /\ lines # <<>>
    /\ ExportedMode = "installer"
    /\ Len(filtered) = 3
    /\ Len(lines) = 6
    /\ Cardinality(SubtotalPositions) = 2

\* a comes before b in the alphabet.
AlphabeticallyBefore(a, b) ==
    \E i, j \in DOMAIN Alphabetical :
        i < j /\ Alphabetical[i] = a /\ Alphabetical[j] = b

\* C14: within every group the records are in non-increasing order of
\* invoice amount; the groups of the detail view are in ascending
\* alphabetical order of label, no label twice and no group empty; the rows
\* of the range summary are in non-increasing order of total.
C14_OutputIsOrdered ==
    LET groups == grouped
        rows == summaryRows
    IN  /\ \A g \in DOMAIN groups :
                /\ groups[g].rows # <<>>
                /\ \A i, j \in DOMAIN groups[g].rows :
                        i < j => groups[g].rows[i].invoiceAmount >= groups[g].rows[j].invoiceAmount
        /\ \A g, h \in DOMAIN groups :
                g < h => AlphabeticallyBefore(groups[g].label, groups[h].label)
        /\ \A i, j \in DOMAIN rows : i < j => rows[i].total >= rows[j].total
        /\ useRange => Len(rows) = Len(groups)

\* Each of the three sorts has changed an order.
C14_Witness ==
    /\ useRange
    /\ groupMode = "installer"
    /\ Len(grouped) >= 2
    /\ MapKeys(filtered)[1] # grouped[1].label
    /\ \E g \in DOMAIN grouped :
            /\ Len(grouped[g].rows) >= 2
            /\ grouped[g].rows # MapGet(grouped[g].label)
    /\ summaryRows[1].name # grouped[1].label

(***************************************************************************)
(* Claims about loads that overlap, on SpecEffects.                        *)
(***************************************************************************)
\* The records for the current parameters: those of the single date, or
\* those of the days from the earlier to the later of rangeStart and
\* rangeEnd, in date order.
RecordsForParameters ==
    IF useRange
      THEN RecordsOfDays(ExpectedDays([rangeStart |-> rangeStart, rangeEnd |-> rangeEnd]),
                         tzOffset)
      ELSE fetchInstallsDemo(date, tzOffset)

\* What a load for given parameters writes: the results of the fetches it
\* makes.
RecordsLoadWrites(d, ur, rs, re) ==
    IF ur
      THEN LET range == normalizeRange(rs, re)
           IN  RecordsOfDays(enumerateDatesInclusive(range[1], range[2], tzOffset), tzOffset)
      ELSE fetchInstallsDemo(d, tzOffset)

\* The load started by the most recent change of the parameters (or by the
\* mount) has completed and has not been torn down.
LatestLoadCompleted ==
    /\ loads # <<>>
    /\ loads[Len(loads)].done
    /\ ~loads[Len(loads)].cancelled

\* C15 as stated: once the load started by the most recent change has
\* completed, allData is the records for the current parameters (the single
\* date, or the normalised inclusive range), whatever the earlier loads did
\* and in whatever order their fetches completed.
C15_Original == LatestLoadCompleted => allData = RecordsForParameters

\* The same holds on hosts that are not east of UTC.
C15_HoldsWestOfUTC == tzOffset <= 0 => C15_Original

\* On every host, once the latest load has completed allData is what that
\* load wrote, and allData only ever changes to what a load for the current
\* parameters writes: a superseded load never overwrites it.
C15_LatestLoadWins ==
    LatestLoadCompleted => allData = RecordsLoadWrites(date, useRange, rangeStart, rangeEnd)

C15_NoStaleOverwrite ==
    [][allData' # allData
        => allData' = RecordsLoadWrites(date', useRange', rangeStart', rangeEnd')]_vars

\* A superseded load's fetch completed after a later load had been started,
\* and the latest load, for a range, has completed.
C15_Witness ==
    /\ LatestLoadCompleted
    /\ useRange
    /\ \E i \in DOMAIN loads : loads[i] = Spent(TRUE)
    /\ allData # <<>>

(***************************************************************************)
(* The filter checkboxes: SpecToggles starts from the selections useState  *)
(* makes and takes any sequence of the four toggles.                       *)
(***************************************************************************)
\* Lines 146-147.
allTechsSelected == Len(selectedTechs) = Len(TECHS) /\ Len(TECHS) > 0
allInstallersSelected == Len(selectedInstallers) = Len(INSTALLERS) /\ Len(INSTALLERS) > 0

\* Lines 209 and 217: what a toggle-all sets.
AllToggled(allSelected, all) == IF allSelected THEN <<>> ELSE all

\* Lines 205-207; the checkboxes of line 377 are those of the roster.
toggleTech(t) ==
    /\ mounted = "report"
    /\ selectedTechs' = Toggled(selectedTechs, t)
    /\ UNCHANGED <<selectedInstallers, groupMode, exportVars>>

\* Lines 208-210.
toggleAllTechs ==
    /\ mounted = "report"
    /\ selectedTechs' = AllToggled(allTechsSelected, TECHS)
    /\ UNCHANGED <<selectedInstallers, groupMode, exportVars>>

\* Lines 213-215; the checkboxes of line 393 are those of the roster.
toggleInstaller(i) ==
    /\ mounted = "report"
    /\ selectedInstallers' = Toggled(selectedInstallers, i)
    /\ UNCHANGED <<selectedTechs, groupMode, exportVars>>

\* Lines 216-218.
toggleAllInstallers ==
    /\ mounted = "report"
    /\ selectedInstallers' = AllToggled(allInstallersSelected, INSTALLERS)
    /\ UNCHANGED <<selectedTechs, groupMode, exportVars>>

TogglesInit ==
    /\ ProxyIdle
    /\ RosterIdle
    /\ ExportIdle
    /\ ViewIdle
    /\ mounted = "report"
    /\ tzOffset = 0
    /\ setterCalls = {}
    /\ date = Today
    /\ useRange = FALSE
    /\ rangeStart = Today
    /\ rangeEnd = Today
    /\ pendingRangeOpen = FALSE
    /\ allData = <<>>
    /\ loads = <<>>

TogglesNext ==
    \/ \E t \in AsSet(TECHS) : toggleTech(t) /\ AggregatorFrame
    \/ toggleAllTechs /\ AggregatorFrame
    \/ \E i \in AsSet(INSTALLERS) : toggleInstaller(i) /\ AggregatorFrame
    \/ toggleAllInstallers /\ AggregatorFrame

SpecToggles == TogglesInit /\ [][TogglesNext]_vars

NoDuplicates(seq) == \A i, j \in DOMAIN seq : seq[i] = seq[j] => i = j

\* A selection is sound: no name twice, only roster names; the select-all
\* flag says whether every roster name is selected; and a toggle-all would
\* set the empty selection when every name is selected, the whole roster
\* otherwise.
SelectionSound(selected, roster, allSelected) ==
    /\ NoDuplicates(selected)
    /\ AsSet(selected) \subseteq AsSet(roster)
    /\ allSelected <=> AsSet(selected) = AsSet(roster)
    /\ AsSet(selected) = AsSet(roster) => AllToggled(allSelected, roster) = <<>>
    /\ AsSet(selected) # AsSet(roster) => AllToggled(allSelected, roster) = roster

\* C16: after any sequence of toggleTech, toggleAllTechs, toggleInstaller
\* and toggleAllInstallers, selectedTechs and selectedInstallers hold no name
\* twice and only roster names, so the select-all flags (which compare
\* lengths) are true exactly when every roster name is selected, and a
\* toggle-all switches to the empty selection from the full one and to the
\* full one from any other.
C16_SelectionsStaySound ==
    /\ SelectionSound(selectedTechs, TECHS, allTechsSelected)
    /\ SelectionSound(selectedInstallers, INSTALLERS, allInstallersSelected)

\* Every technician is selected again after some were taken out and put
\* back (the order is no longer the roster's), and one installer is left.
C16_Witness ==
    /\ allTechsSelected
    /\ selectedTechs # TECHS
    /\ Len(selectedInstallers) = 1

====
